---------------------------- MODULE Spec2Model ----------------------------
(***************************************************************************)
(* Kiosk photo player server: the lazy image cache (ensureCached), the     *)
(* frame sequence expander (prepareFrames) and the slide graph resolver    *)
(* (buildSlideshow) with the request handlers that drive them.             *)
(*                                                                         *)
(* The server is a single-threaded event loop: a handler runs without      *)
(* interruption until it awaits a pending I/O promise (glob, image         *)
(* metadata, the resize pipeline's toFile).  Each action below is one such *)
(* run: the arrival of a request or the completion of one I/O operation,   *)
(* followed by everything the handler does until its next pending await.   *)
(***************************************************************************)
EXTENDS Integers, Sequences, FiniteSets, TLC

VARIABLES
  rev,      \* the server revision that runs: "A" = src/server.js,
            \* "B" = src/unnamed/part_003:1-279, "C" = src/unnamed/part_003:281-598
  config,   \* the decoded config.yaml after the load-time defaults
  dirs,     \* file system: the set of existing directories (absolute paths)
  files,    \* file system: existing regular files, absolute path -> content
  reqs,     \* one record per request slot: the handler's locals and position
  faults,   \* number of I/O failures the environment has injected so far
  hist,     \* per relative path: what the ensureCached calls on it have done so far
  sink      \* "ok", or "refusing": once the route handler has written its line, the
            \* log file accepts no append (fs.appendFileSync throws in every log call
            \* of buildSlideshow and ensureCached)

vars == <<rev, config, dirs, files, reqs, faults, hist, sink>>

(***************************************************************************)
(* Bounds of the model.                                                    *)
(***************************************************************************)
MaxRequests == 2     \* request slots (requests may overlap or follow each other)
MaxFaults == 1       \* I/O failures injected per behaviour

Slots == 1..MaxRequests

(***************************************************************************)
(* Paths.  A path is a sequence of segments; path.join and path.relative   *)
(* normalise ".." segments as Node's path module does.                     *)
(***************************************************************************)
RECURSIVE Norm(_, _)
Norm(acc, rest) ==
  IF rest = <<>> THEN acc
  ELSE LET seg == Head(rest) IN
       IF seg = ".." /\ acc # <<>> /\ acc[Len(acc)] # ".."
       THEN Norm(SubSeq(acc, 1, Len(acc) - 1), Tail(rest))
       ELSE Norm(Append(acc, seg), Tail(rest))

Join(base, relative) == Norm(<<>>, base \o relative)

RECURSIVE CommonLen(_, _)
CommonLen(p, q) ==
  IF p = <<>> \/ q = <<>> \/ Head(p) # Head(q) THEN 0
  ELSE 1 + CommonLen(Tail(p), Tail(q))

Relative(from, to) ==
  LET k == CommonLen(from, to) IN
  [i \in 1..(Len(from) - k) |-> ".."] \o SubSeq(to, k + 1, Len(to))

Dirname(p) == SubSeq(p, 1, Len(p) - 1)

Ancestors(p) == { SubSeq(p, 1, i) : i \in 1..Len(p) }

IsUnder(root, p) == Len(p) >= Len(root) /\ SubSeq(p, 1, Len(root)) = root

APP_DIR == <<"app">>
PHOTOS_DIR == Join(APP_DIR, <<"photos">>)
CACHE_DIR == Join(APP_DIR, <<"cache">>)
LOG_DIR == Join(APP_DIR, <<"logs">>)

(***************************************************************************)
(* The photo library on disk and what sharp reports for each image.        *)
(***************************************************************************)
maxWidth == 1920
maxHeight == 1080

Orig(p) == [kind |-> "orig", of |-> p]
Resized(p) == [kind |-> "resized", of |-> p]
Partial(p) == [kind |-> "partial", of |-> p]
NoContent == [kind |-> "none", of |-> << >>]

PhotoNames == {<<"a.jpg">>, <<"big.jpg">>, <<"bad.jpg">>, <<"seq_001.jpg">>,
               <<"seq_002.jpg">>, <<"sub", "c.jpg">>}

InitFilePaths == { Join(PHOTOS_DIR, n) : n \in PhotoNames } \cup { Join(APP_DIR, <<"secret.jpg">>) }

\* bad.jpg is not a decodable image: sharp's metadata() rejects on it
Decodable(content) == content.kind = "orig" /\ content.of # Join(PHOTOS_DIR, <<"bad.jpg">>)

Width(content) ==
  CASE content.of = Join(PHOTOS_DIR, <<"a.jpg">>) -> 1920
    [] content.of = Join(PHOTOS_DIR, <<"big.jpg">>) -> 1921
    [] content.of = Join(PHOTOS_DIR, <<"seq_001.jpg">>) -> 800
    [] content.of = Join(PHOTOS_DIR, <<"seq_002.jpg">>) -> 1920
    [] OTHER -> 640

Height(content) ==
  CASE content.of = Join(PHOTOS_DIR, <<"a.jpg">>) -> 1080
    [] content.of = Join(PHOTOS_DIR, <<"big.jpg">>) -> 1080
    [] content.of = Join(PHOTOS_DIR, <<"seq_001.jpg">>) -> 600
    [] content.of = Join(PHOTOS_DIR, <<"seq_002.jpg">>) -> 1081
    [] OTHER -> 480

existsSync(d, f, p) == p \in DOMAIN f \/ p \in d


(***************************************************************************)
(* References handed to the client: `/cache/<relPath>` or                  *)
(* `/photos/<relPath>`; NoRef is JavaScript's null / undefined.            *)
(***************************************************************************)
CacheRef(relPath) == [root |-> "cache", rel |-> relPath]
PhotosRef(relPath) == [root |-> "photos", rel |-> relPath]
NoRef == [root |-> "none", rel |-> <<>>]

(***************************************************************************)
(* Bookkeeping about the calls made so far on one relative path (history   *)
(* only: no handler reads it).                                             *)
(***************************************************************************)
NoHist == [ended |-> FALSE, okRet |-> FALSE, inflight |-> 0, overlap |-> FALSE,
           resizes |-> 0, failed |-> FALSE]

H(h, relPath) == IF relPath \in DOMAIN h THEN h[relPath] ELSE NoHist

HSet(h, relPath, rec) == [k \in DOMAIN h \cup {relPath} |-> IF k = relPath THEN rec ELSE h[k]]

\* a call passed its existence check without finding the cache file
HMiss(h, relPath) ==
  LET o == H(h, relPath) IN
  HSet(h, relPath, [o EXCEPT !.inflight = @ + 1, !.overlap = @ \/ o.inflight > 0])

\* a call returned `ref`; wasMiss: it had been counted by HMiss
HReturn(h, relPath, ref, wasMiss) ==
  LET o == H(h, relPath) IN
  HSet(h, relPath, [o EXCEPT !.ended = TRUE,
                             !.okRet = @ \/ ref.root = "cache",
                             !.failed = @ \/ ref.root = "photos",
                             !.inflight = IF wasMiss THEN @ - 1 ELSE @])

HResize(h, relPath) ==
  LET o == H(h, relPath) IN HSet(h, relPath, [o EXCEPT !.resizes = @ + 1])

(***************************************************************************)
(* The world a handler run reads and writes.                               *)
(***************************************************************************)
World == [dirs |-> dirs, files |-> files, faults |-> faults, hist |-> hist, sink |-> sink]

WriteFile(f, p, content) == [q \in DOMAIN f \cup {p} |-> IF q = p THEN content ELSE f[q]]

\* fs.mkdirSync(dir, { recursive: true }): throws when a path component is a regular file
mkdirBlocked(w, dir) == \E a \in Ancestors(dir) : a \in DOMAIN w.files

mkdirSync(w, dir) == [w EXCEPT !.dirs = @ \cup Ancestors(dir)]

CanFault(w) == w.faults < MaxFaults

Fault(w) == [w EXCEPT !.faults = @ + 1]

\* log(msg): fs.appendFileSync on the log file throws while the file refuses writes
logThrows(w) == w.sink = "refusing"


(***************************************************************************)
(* ensureCached(filePath): one record per call.                            *)
(*   pc      "meta"    awaiting image.metadata()                           *)
(*           "resize"  awaiting the resize pipeline, output not yet opened *)
(*           "writing" awaiting the resize pipeline, output file opened    *)
(*           "done"    returned `ref`                                      *)
(*   hit     fs.existsSync(cachedPath) was true                            *)
(*   found   what was at cachedPath when fs.existsSync looked (history)     *)
(*   branch  "copy" / "resize" once the size test has chosen               *)
(*   fail    the step that threw into the catch block ("mkdir", "meta",    *)
(*           "copy", "resize": pipeline failed before it opened its output,*)
(*           "writing": after, "log": the log call after the resize), or   *)
(*           "none"                                                        *)
(*   after, afterCache   when the call began, an earlier call on the same  *)
(*           relative path had already returned (a /cache reference)       *)
(***************************************************************************)
NewCall(w, filePath) ==
  LET relPath == Relative(PHOTOS_DIR, filePath) IN
  [filePath |-> filePath, relPath |-> relPath, cachedPath |-> Join(CACHE_DIR, relPath),
   pc |-> "meta", ref |-> NoRef, hit |-> FALSE, found |-> NoContent,
   branch |-> "none", fail |-> "none",
   after |-> H(w.hist, relPath).ended, afterCache |-> H(w.hist, relPath).okRet]

\* variant: the catch block returns the /cache reference all the same
CaughtKeepsCacheRef(w, call, step, wasMiss) ==
  LET ref == CacheRef(call.relPath) IN
  [w |-> [w EXCEPT !.hist = HReturn(@, call.relPath, ref, wasMiss)],
   call |-> [call EXCEPT !.pc = "done", !.fail = step, !.ref = ref]]

\* the catch block: return the /photos reference
Caught(w, call, step, wasMiss) ==
  LET ref == PhotosRef(Relative(PHOTOS_DIR, call.filePath)) IN
  [w |-> [w EXCEPT !.hist = HReturn(@, call.relPath, ref, wasMiss)],
   call |-> [call EXCEPT !.pc = "done", !.fail = step, !.ref = ref]]

Returned(w, call, wasMiss) ==
  LET ref == CacheRef(call.relPath) IN
  [w |-> [w EXCEPT !.hist = HReturn(@, call.relPath, ref, wasMiss)],
   call |-> [call EXCEPT !.pc = "done", !.ref = ref]]

\* variant: the call goes on to the transform without looking for the cache file
ensureCachedNoLookup(w, call) ==
  LET cachedDir == Dirname(call.cachedPath)
      w1 == mkdirSync(w, cachedDir)
  IN [w |-> [w1 EXCEPT !.hist = HMiss(@, call.relPath)], call |-> call]

\* lines 66-74: up to `await image.metadata()`
ensureCachedMkdirExists(w, call) ==
  LET cachedDir == Dirname(call.cachedPath)
      w1 == mkdirSync(w, cachedDir)
  IN IF existsSync(w1.dirs, w1.files, call.cachedPath)
     THEN Returned(w1, [call EXCEPT !.hit = TRUE,
                                    !.found = IF call.cachedPath \in DOMAIN w1.files
                                              THEN w1.files[call.cachedPath]
                                              ELSE NoContent], FALSE)
     ELSE [w |-> [w1 EXCEPT !.hist = HMiss(@, call.relPath)], call |-> call]

ensureCachedStart(w, filePath) ==
  LET call == NewCall(w, filePath)
      cachedDir == Dirname(call.cachedPath)
  IN (IF mkdirBlocked(w, cachedDir)
      THEN { Caught(w, call, "mkdir", FALSE) }
      ELSE { ensureCachedMkdirExists(w, call) })
     \cup (IF CanFault(w) /\ ~mkdirBlocked(w, cachedDir)
           THEN { Caught(Fault(w), call, "mkdir", FALSE) } ELSE {})

\* fs.copyFileSync(filePath, cachedPath)
copyFileSync(w, call) ==
  [w EXCEPT !.files = WriteFile(@, call.cachedPath, w.files[call.filePath])]

\* fs.copyFileSync throws after it created the destination: an incomplete file stays
copyFileTorn(w, call) ==
  [w EXCEPT !.files = WriteFile(@, call.cachedPath, Partial(call.filePath))]

\* variant: an image exactly as large as the bounding box is resized too
ensureCachedBranchInclusive(w, call) ==
  LET metadata == w.files[call.filePath] IN
  IF Width(metadata) >= maxWidth \/ Height(metadata) >= maxHeight
  THEN { [w |-> [w EXCEPT !.hist = HResize(@, call.relPath)],
          call |-> [call EXCEPT !.pc = "resize", !.branch = "resize"]] }
  ELSE { Returned(copyFileSync(w, call), [call EXCEPT !.branch = "copy"], TRUE) }
       \cup (IF CanFault(w)
             THEN { Caught(Fault(w), [call EXCEPT !.branch = "copy"], "copy", TRUE),
                    Caught(copyFileTorn(Fault(w), call), [call EXCEPT !.branch = "copy"],
                           "copy", TRUE) }
             ELSE {})

\* lines 75-89: the size test, and the copy branch to its return
ensureCachedBranch(w, call) ==
  LET metadata == w.files[call.filePath] IN
  IF Width(metadata) > maxWidth \/ Height(metadata) > maxHeight
  THEN { [w |-> [w EXCEPT !.hist = HResize(@, call.relPath)],
          call |-> [call EXCEPT !.pc = "resize", !.branch = "resize"]] }
  ELSE { Returned(copyFileSync(w, call), [call EXCEPT !.branch = "copy"], TRUE) }
       \cup (IF CanFault(w)
             THEN { Caught(Fault(w), [call EXCEPT !.branch = "copy"], "copy", TRUE),
                    Caught(copyFileTorn(Fault(w), call), [call EXCEPT !.branch = "copy"],
                           "copy", TRUE) }
             ELSE {})

\* image.metadata() settles: it rejects on a missing or undecodable source
ensureCachedMeta(w, call) ==
  IF call.filePath \notin DOMAIN w.files \/ ~Decodable(w.files[call.filePath])
  THEN { Caught(w, call, "meta", TRUE) }
  ELSE ensureCachedBranch(w, call)
       \cup (IF CanFault(w) THEN { Caught(Fault(w), call, "meta", TRUE) } ELSE {})

\* the resize pipeline creates (truncates) its output file
toFileOpen(w, call) ==
  [w |-> [w EXCEPT !.files = WriteFile(@, call.cachedPath, Partial(call.filePath))],
   call |-> [call EXCEPT !.pc = "writing"]]

\* variant: the pipeline's output does not stay at cachedPath
toFileDiscards(w, call, otherWriter) ==
  Returned([w EXCEPT !.files = [p \in DOMAIN @ \ {call.cachedPath} |-> @[p]]], call, TRUE)

\* toFile resolves; otherWriter: another pipeline still has the same output file open
toFileDone(w, call, otherWriter) ==
  Returned([w EXCEPT !.files = IF otherWriter THEN @
                                ELSE WriteFile(@, call.cachedPath, Resized(call.filePath))],
           call, TRUE)

\* toFile resolved and the output is written, then log(`Cached resized ...`) throws
\* inside the try block
toFileLogThrows(w, call, otherWriter) ==
  LET o == toFileDone(w, call, otherWriter)
  IN Caught([o.w EXCEPT !.hist = w.hist], call, "log", TRUE)

\* toFile rejects: whatever was written so far stays on disk
toFileFail(w, call) == Caught(Fault(w), call, call.pc, TRUE)

(***************************************************************************)
(* Slide definitions and the config object.  An absent optional field is   *)
(* the empty sequence / empty string; `hasPanels` tells whether a `panels` *)
(* list is present; `duration` is "unset", "number" or "infinite".         *)
(***************************************************************************)
Slide(id, type, file) ==
  [id |-> id, type |-> type, file |-> file, hasPanels |-> FALSE, panels |-> <<>>,
   url |-> "", video_id |-> "", duration |-> "unset"]

Mux(id, panels) == [Slide(id, "mux", <<>>) EXCEPT !.hasPanels = TRUE, !.panels = panels]

NoSlide == Slide("", "", <<>>)

\* masterSlides.find((s) => s.id === id): the first slide with that id, or undefined
RECURSIVE find(_, _)
find(masterSlides, id) ==
  IF masterSlides = <<>> THEN NoSlide
  ELSE IF Head(masterSlides).id = id THEN Head(masterSlides)
  ELSE find(Tail(masterSlides), id)

\* slide.file.includes("*")
WildSegments == {"seq_*.jpg", "none_*.jpg", "*.JPG", "*.jpg", "*.png"}
includesStar(file) == \E i \in 1..Len(file) : file[i] \in WildSegments

\* minimatch of one path segment against one pattern segment
SegmentMatches(name, pattern) ==
  \/ name = pattern
  \/ pattern = "seq_*.jpg" /\ name \in {"seq_001.jpg", "seq_002.jpg"}
  \/ pattern = "*.jpg" /\ name \in {"a.jpg", "big.jpg", "bad.jpg", "seq_001.jpg",
                                    "seq_002.jpg", "c.jpg", "secret.jpg"}

\* JavaScript's default sort order on these names (UTF-16 code units)
NameRank(name) ==
  CASE name = ".." -> 0
    [] name = "a.jpg" -> 1
    [] name = "bad.jpg" -> 2
    [] name = "big.jpg" -> 3
    [] name = "c.jpg" -> 4
    [] name = "secret.jpg" -> 5
    [] name = "seq_001.jpg" -> 6
    [] name = "seq_002.jpg" -> 7
    [] name = "sub" -> 8
    [] OTHER -> 9

RECURSIVE PathLess(_, _)
PathLess(p, q) ==
  IF p = <<>> THEN q # <<>>
  ELSE IF q = <<>> THEN FALSE
  ELSE IF Head(p) = Head(q) THEN PathLess(Tail(p), Tail(q))
  ELSE NameRank(Head(p)) < NameRank(Head(q))

\* glob(pattern, { cwd: PHOTOS_DIR }): the relative paths of the files that match
globMatches(f, pattern) ==
  { Relative(PHOTOS_DIR, p) : p \in
      { q \in DOMAIN f :
          /\ Len(q) = Len(Join(PHOTOS_DIR, pattern))
          /\ Dirname(q) = Dirname(Join(PHOTOS_DIR, pattern))
          /\ SegmentMatches(q[Len(q)], pattern[Len(pattern)]) } }

\* Array.prototype.sort on the matches
RECURSIVE sort(_)
\* variant: descending order
sortDescending(S) ==
  IF S = {} THEN <<>>
  ELSE LET last == CHOOSE p \in S : \A q \in S \ {p} : PathLess(q, p)
       IN <<last>> \o sort(S \ {last})

sort(S) ==
  IF S = {} THEN <<>>
  ELSE LET least == CHOOSE p \in S : \A q \in S \ {p} : PathLess(p, q)
       IN <<least>> \o sort(S \ {least})

\* the default include written by the load step when config.default is absent
DefaultPatterns == <<"*.JPG", "*.jpg", "*.png">>

Include(ids) == [has |-> TRUE, ids |-> ids]
NoInclude == [has |-> FALSE, ids |-> <<>>]

\* a section of the config: absent, or present with or without an include list
Section(include) == [present |-> TRUE, include |-> include]
NoSection == [present |-> FALSE, include |-> NoInclude]

RawConfig(slides, client, default) == [slides |-> slides, client |-> client, default |-> default]

\* lines 36-46: load config.yaml; `readable` is whether the file could be read and parsed
loadConfig(readable, raw) ==
  IF readable
  THEN [raw EXCEPT !.default = IF raw.default.present THEN @
                                ELSE Section(Include(DefaultPatterns))]
  ELSE RawConfig(<<>>, NoSection, Section(Include(DefaultPatterns)))

\* variant: a client section without an include list selects nothing
includeIdsOfOwnOnly(cfg) ==
  LET defaultCfg == cfg.default
      clientCfg == IF cfg.client.present THEN cfg.client ELSE defaultCfg
      includeIds == IF clientCfg.include.has THEN clientCfg.include.ids ELSE <<>>
  IN IF Len(includeIds) > 0 THEN includeIds
     ELSE [i \in 1..Len(cfg.slides) |-> cfg.slides[i].id]

\* lines 119-127: the include list of a resolution
includeIdsOf(cfg) ==
  LET defaultCfg == cfg.default
      clientCfg == IF cfg.client.present THEN cfg.client ELSE defaultCfg
      includeIds == IF clientCfg.include.has THEN clientCfg.include.ids
                    ELSE IF defaultCfg.include.has THEN defaultCfg.include.ids
                    ELSE <<>>
  IN IF Len(includeIds) > 0 THEN includeIds
     ELSE [i \in 1..Len(cfg.slides) |-> cfg.slides[i].id]

(***************************************************************************)
(* Renderable slide descriptors.  Only the fields that identify the slide  *)
(* and carry its media are kept; effect, duration, fps, repeat and title   *)
(* are copied from the definition and play no part in the resolution.      *)
(*   kind "def": the slide definition object itself was pushed (`type` is  *)
(*   its type), as revision B does for a mux and its children.             *)
(*   kind "mux": revision C's mux descriptor.  `ext` of a youtube          *)
(*   descriptor is its video_id, "" when undefined.                        *)
(***************************************************************************)
Desc(id, kind) == [id |-> id, kind |-> kind, url |-> NoRef, frames |-> <<>>, ext |-> "", type |-> ""]

BlankDesc(slide) == Desc(slide.id, "blank")
StillDesc(slide, url) == [Desc(slide.id, "still") EXCEPT !.url = url]
AnimatedDesc(slide, frames) == [Desc(slide.id, "animated") EXCEPT !.frames = frames]
HtmlDesc(slide) == [Desc(slide.id, "html") EXCEPT !.ext = slide.url]
YoutubeDesc(slide) == [Desc(slide.id, "youtube") EXCEPT !.ext = slide.video_id]
DefDesc(slide) == [Desc(slide.id, "def") EXCEPT !.type = slide.type]
MuxDesc(slide) == [Desc(slide.id, "mux") EXCEPT !.type = "mux"]

(***************************************************************************)
(* A request: the handler's locals and where it is suspended.              *)
(*   pc    "idle"  no request yet      "glob"  awaiting glob()             *)
(*         "call"  awaiting the ensureCached promise(s) in `calls`         *)
(*         "done"  response sent with `status`                             *)
(*   cont  what the handler does with the awaited value                    *)
(*   log   the ensureCached calls of this request that have returned       *)
(*   include   the include list the resolution iterates over (history)     *)
(*   kids, inMux   revision C: the panel references of the mux being       *)
(*         expanded that are still to do, and whether one is being done    *)
(*   logThrew  a log() call of the handler threw (history)                 *)
(*   prepared  the prepareFrames calls that returned: pattern and result   *)
(*             (history)                                                   *)
(***************************************************************************)
NoReq ==
  [kind |-> "none", pc |-> "idle", cont |-> "", input |-> <<>>, ids |-> <<>>,
   slide |-> NoSlide, rest |-> <<>>, expanded |-> <<>>, frames |-> <<>>, pend |-> <<>>,
   calls |-> <<>>, log |-> <<>>, status |-> 0, fellBack |-> FALSE,
   include |-> <<>>, kids |-> <<>>, inMux |-> FALSE, logThrew |-> FALSE,
   prepared |-> <<>>]

Out(w, r) == [w |-> w, r |-> r]

respond(w, r, status) == { Out(w, [r EXCEPT !.pc = "done", !.status = status, !.calls = <<>>]) }

\* variant: unshift
pushFront(r, desc) == [r EXCEPT !.expanded = <<desc>> \o @]

push(r, desc) == [r EXCEPT !.expanded = Append(@, desc)]

\* a log(...) call of buildSlideshow in the revisions `revs`: when it throws,
\* buildSlideshow rejects and the route's catch block answers 500
logged(w, r, revs, next) ==
  IF rev \in revs /\ logThrows(w)
  THEN respond(w, [r EXCEPT !.logThrew = TRUE], 500)
  ELSE next

built(w, r) == logged(w, r, {"A", "B", "C"}, respond(w, r, 200))

RECURSIVE flatMap(_)
flatMap(panels) == IF panels = <<>> THEN <<>> ELSE Head(panels) \o flatMap(Tail(panels))

(***************************************************************************)
(* Revision B, lines 135-146: addRef(ids, seen).  `seen` and `expanded`    *)
(* are shared by all recursive invocations; the result is both after the   *)
(* loop over `ids`.                                                        *)
(***************************************************************************)
RECURSIVE addRef(_, _, _)
\* variant: a nested invocation works on its own copy of `seen`
addRefCopiesSeen(ids, seen, expanded) ==
  IF ids = <<>> THEN [seen |-> seen, expanded |-> expanded]
  ELSE LET rid == Head(ids)
           child == find(config.slides, rid)
       IN IF rid \in seen \/ child = NoSlide
          THEN addRef(Tail(ids), seen, expanded)
          ELSE LET seen1 == seen \cup {rid}
                   exp1 == Append(expanded, DefDesc(child))
                   inner == IF child.type = "mux" /\ child.hasPanels
                            THEN addRef(flatMap(child.panels), seen1, exp1)
                            ELSE [seen |-> seen1, expanded |-> exp1]
               IN addRef(Tail(ids), seen1, inner.expanded)

addRef(ids, seen, expanded) ==
  IF ids = <<>> THEN [seen |-> seen, expanded |-> expanded]
  ELSE LET rid == Head(ids)
           child == find(config.slides, rid)
       IN IF rid \in seen \/ child = NoSlide
          THEN addRef(Tail(ids), seen, expanded)
          ELSE LET seen1 == seen \cup {rid}
                   exp1 == Append(expanded, DefDesc(child))
                   inner == IF child.type = "mux" /\ child.hasPanels
                            THEN addRef(flatMap(child.panels), seen1, exp1)
                            ELSE [seen |-> seen1, expanded |-> exp1]
               IN addRef(Tail(ids), inner.seen, inner.expanded)

(***************************************************************************)
(* buildSlideshow, as the set of states in which a run of the handler can  *)
(* end: suspended on an await, or with the response sent.                  *)
(***************************************************************************)
RECURSIVE slideLoop(_, _), framesLoop(_, _), fallbackLoop(_, _), kidsLoop(_, _),
          resume(_, _, _), callThen(_, _, _, _)

\* `await ensureCached(filePath)`, then continue with `cont`
callThen(w, r, filePath, cont) ==
  UNION { IF o.call.pc = "done"
          THEN resume(o.w, [r EXCEPT !.cont = cont, !.log = Append(@, o.call)], o.call.ref)
          ELSE { Out(o.w, [r EXCEPT !.pc = "call", !.cont = cont, !.calls = <<o.call>>]) }
        : o \in ensureCachedStart(w, filePath) }

\* server.js lines 204-220: the whole library as a last resort
fallbackLoop(w, r) ==
  IF r.rest = <<>> THEN built(w, r)
  ELSE LET slide == Head(r.rest)
           r1 == [r EXCEPT !.rest = Tail(@), !.slide = slide]
       IN IF slide.file # <<>>
          THEN callThen(w, r1, Join(PHOTOS_DIR, slide.file), "fallback")
          ELSE fallbackLoop(w, r1)

\* after the for loop over the include list
finish(w, r) ==
  IF rev = "A" /\ r.expanded = <<>>
  THEN logged(w, r, {"A"}, fallbackLoop(w, [r EXCEPT !.rest = config.slides, !.fellBack = TRUE]))
  ELSE built(w, r)

\* server.js lines 141-189: one iteration of the for loop, slide found
iterationA(w, r, slide) ==
  IF slide.file = <<>>
  THEN LET r1 == push(r, BlankDesc(slide)) IN logged(w, r1, {"A"}, slideLoop(w, r1))
  ELSE IF includesStar(slide.file)
  THEN { Out(w, [r EXCEPT !.pc = "glob", !.cont = "slide", !.slide = slide]) }
  ELSE LET imgPath == Join(PHOTOS_DIR, slide.file) IN
       IF ~existsSync(w.dirs, w.files, imgPath) THEN logged(w, r, {"A"}, slideLoop(w, r))
       ELSE callThen(w, [r EXCEPT !.slide = slide], imgPath, "still")

\* part_003 lines 133-208: one iteration of the for loop, slide found
iterationB(w, r, slide) ==
  IF slide.type = "mux"
  THEN IF ~slide.hasPanels
       THEN respond(w, push(r, DefDesc(slide)), 500)   \* slide.panels.flatMap throws
       ELSE slideLoop(w, [r EXCEPT !.expanded =
              addRef(flatMap(slide.panels), {}, Append(@, DefDesc(slide))).expanded])
  ELSE IF slide.type = "html" THEN slideLoop(w, push(r, HtmlDesc(slide)))
  ELSE IF slide.type = "youtube" THEN slideLoop(w, push(r, YoutubeDesc(slide)))
  ELSE IF includesStar(slide.file)
  THEN { Out(w, [r EXCEPT !.pc = "glob", !.cont = "slide", !.slide = slide]) }
  ELSE IF slide.file # <<>> /\ existsSync(w.dirs, w.files, Join(PHOTOS_DIR, slide.file))
  THEN callThen(w, [r EXCEPT !.slide = slide], Join(PHOTOS_DIR, slide.file), "still")
  ELSE slideLoop(w, r)

\* slide.url.split("/embed/")[1]?.split(/[?&]/)[0]; "" when undefined or empty
embedId(url) == IF url = "http://yt/embed/v2?t=1" THEN "v2" ELSE ""

\* part_003 lines 413-559: one iteration of the for loop, slide found
iterationC(w, r, slide) ==
  IF slide.type = "mux" /\ slide.hasPanels
  THEN LET r1 == [push(r, MuxDesc(slide)) EXCEPT !.kids = flatMap(slide.panels),
                                                 !.inMux = TRUE]
       IN logged(w, r1, {"C"}, kidsLoop(w, r1))
  ELSE IF slide.type = "youtube" /\ (slide.video_id # "" \/ slide.url # "")
  THEN LET videoId == IF slide.video_id # "" THEN slide.video_id ELSE embedId(slide.url)
           r1 == push(r, [YoutubeDesc(slide) EXCEPT !.ext = videoId])
       IN IF videoId = "" THEN slideLoop(w, r)
          ELSE logged(w, r1, {"C"}, slideLoop(w, r1))
  ELSE IF slide.type = "html" /\ slide.url # ""
  THEN LET r1 == push(r, HtmlDesc(slide)) IN logged(w, r1, {"C"}, slideLoop(w, r1))
  ELSE IF slide.file = <<>>
  THEN LET r1 == push(r, BlankDesc(slide)) IN logged(w, r1, {"C"}, slideLoop(w, r1))
  ELSE IF includesStar(slide.file)
  THEN { Out(w, [r EXCEPT !.pc = "glob", !.cont = "slide", !.slide = slide]) }
  ELSE LET imgPath == Join(PHOTOS_DIR, slide.file) IN
       IF ~existsSync(w.dirs, w.files, imgPath) THEN logged(w, r, {"C"}, slideLoop(w, r))
       ELSE callThen(w, [r EXCEPT !.slide = slide], imgPath, "still")

\* part_003 lines 426-480: the loops over the panels of a mux and their slide ids
kidsLoop(w, r) ==
  IF r.kids = <<>> THEN slideLoop(w, [r EXCEPT !.inMux = FALSE])
  ELSE LET sub == find(config.slides, Head(r.kids))
           r1 == [r EXCEPT !.kids = Tail(@)]
       IN IF sub = NoSlide THEN logged(w, r1, {"C"}, kidsLoop(w, r1))
          ELSE IF sub.type = "youtube" THEN kidsLoop(w, push(r1, YoutubeDesc(sub)))
          ELSE IF sub.type = "html" THEN kidsLoop(w, push(r1, HtmlDesc(sub)))
          ELSE IF sub.file # <<>> /\ includesStar(sub.file)
          THEN { Out(w, [r1 EXCEPT !.pc = "glob", !.cont = "slide", !.slide = sub]) }
          ELSE IF sub.file # <<>>
          THEN callThen(w, [r1 EXCEPT !.slide = sub], Join(PHOTOS_DIR, sub.file), "kid")
          ELSE kidsLoop(w, push(r1, BlankDesc(sub)))

\* variant: an id that is not in the library is shown as a blank slide
slideLoopSubstitutes(w, r) ==
  IF r.ids = <<>> THEN finish(w, r)
  ELSE LET slide == find(config.slides, Head(r.ids))
           r1 == [r EXCEPT !.ids = Tail(@)]
       IN IF slide = NoSlide
          THEN slideLoop(w, push(r1, BlankDesc([NoSlide EXCEPT !.id = Head(r.ids)])))
          ELSE IF rev = "A" THEN iterationA(w, r1, slide)
          ELSE IF rev = "B" THEN iterationB(w, r1, slide)
          ELSE iterationC(w, r1, slide)

\* the for loop over the include list, from its next id on
slideLoop(w, r) ==
  IF r.ids = <<>> THEN finish(w, r)
  ELSE LET slide == find(config.slides, Head(r.ids))
           r1 == [r EXCEPT !.ids = Tail(@)]
       IN IF slide = NoSlide THEN logged(w, r1, {"A", "C"}, slideLoop(w, r1))
          ELSE IF rev = "A" THEN iterationA(w, r1, slide)
          ELSE IF rev = "B" THEN iterationB(w, r1, slide)
          ELSE iterationC(w, r1, slide)

\* prepareFrames has returned `r.frames` to the glob branch it was called from
afterFrames(w, r) ==
  LET r1 == push(r, AnimatedDesc(r.slide, r.frames)) IN
  IF r.inMux THEN kidsLoop(w, r1)
  ELSE IF rev = "A"
  THEN IF r.frames = <<>> THEN logged(w, r, {"A"}, slideLoop(w, r))
       ELSE IF r.slide.duration = "infinite"
            THEN respond(w, r1, 500)  \* duration.toFixed throws
            ELSE logged(w, r1, {"A"}, slideLoop(w, r1))
  ELSE logged(w, r1, {"C"}, slideLoop(w, r1))

\* prepareFrames: the loop over fullPaths, and its return
framesLoop(w, r) ==
  IF r.pend = <<>>
  THEN afterFrames(w, [r EXCEPT !.prepared =
                         Append(@, [pattern |-> r.slide.file, frames |-> r.frames])])
  ELSE callThen(w, [r EXCEPT !.pend = Tail(@)], Head(r.pend), "frame")

\* an awaited ensureCached call has returned `ref`
resume(w, r, ref) ==
  CASE r.cont = "still" ->
         LET r1 == push(r, StillDesc(r.slide, ref))
         IN logged(w, r1, {"A", "C"}, slideLoop(w, r1))
    [] r.cont = "frame" -> framesLoop(w, [r EXCEPT !.frames = Append(@, ref)])
    [] r.cont = "fallback" -> fallbackLoop(w, push(r, StillDesc(r.slide, ref)))
    [] r.cont = "kid" -> kidsLoop(w, push(r, StillDesc(r.slide, ref)))
    [] r.cont = "image" -> respond(w, [r EXCEPT !.frames = <<ref>>], 200)

\* buildSlideshow(clientId) from its first line, with `cfg` as the config
buildSlideshow(w, r, cfg) ==
  LET r1 == [r EXCEPT !.ids = includeIdsOf(cfg), !.include = includeIdsOf(cfg)]
      selected == IF cfg.client.present /\ cfg.client.include.has THEN cfg.client.include.ids
                  ELSE IF cfg.default.include.has THEN cfg.default.include.ids
                  ELSE <<>>
  IN logged(w, r1, IF ~cfg.client.present THEN {"A", "C"} ELSE {},
       logged(w, r1, IF selected = <<>> THEN {"A"} ELSE {},
         slideLoop(w, r1)))

(***************************************************************************)
(* Revision B's other endpoints.                                           *)
(***************************************************************************)
\* GET /api/image?file=..., part_003 lines 248-259 (`file` empty: no parameter)
apiImage(w, r, file) ==
  IF file = <<>> THEN respond(w, r, 400)
  ELSE LET abs == Join(PHOTOS_DIR, file) IN
       IF ~existsSync(w.dirs, w.files, abs) THEN respond(w, r, 404)
       ELSE callThen(w, r, abs, "image")

\* GET /api/frames?pattern=..., part_003 lines 231-235, up to `await glob`
apiFrames(w, r, pattern) ==
  IF pattern = <<>> THEN respond(w, r, 200)
  ELSE { Out(w, [r EXCEPT !.pc = "glob", !.cont = "api"]) }

\* matches.map(async (f) => await ensureCached(...)): every call runs to its first await
RECURSIVE startAll(_, _, _)
startAll(w, paths, calls) ==
  IF paths = <<>> THEN { [w |-> w, calls |-> calls] }
  ELSE UNION { startAll(o.w, Tail(paths), Append(calls, o.call))
             : o \in ensureCachedStart(w, Head(paths)) }

AllDone(calls) == \A k \in 1..Len(calls) : calls[k].pc = "done"

\* Promise.all has settled: res.json({ frames })
respondAll(w, r) ==
  respond(w, [r EXCEPT !.frames = [k \in 1..Len(r.calls) |-> r.calls[k].ref]], 200)

(***************************************************************************)
(* Completions of pending I/O, each followed by the handler's run.         *)
(***************************************************************************)
\* glob() resolves with its matches
globResolved(w, r) ==
  LET pattern == IF r.cont = "slide" THEN r.slide.file ELSE r.input
      matches == sort(globMatches(w.files, pattern))
      fullPaths == [k \in 1..Len(matches) |-> Join(PHOTOS_DIR, matches[k])]
  IN IF r.cont = "slide"
     THEN framesLoop(w, [r EXCEPT !.pend = fullPaths, !.frames = <<>>])
     ELSE UNION { LET r1 == [r EXCEPT !.calls = o.calls,
                                       !.log = SelectSeq(o.calls, LAMBDA c : c.pc = "done")]
                  IN IF AllDone(o.calls) THEN respondAll(o.w, r1)
                     ELSE { Out(o.w, [r1 EXCEPT !.pc = "call", !.cont = "all"]) }
                : o \in startAll(w, fullPaths, <<>>) }

\* call k of request r has moved to o.call
settle(r, k, o) ==
  LET r1 == [r EXCEPT !.calls[k] = o.call]
      r2 == [r1 EXCEPT !.log = Append(@, o.call)]
  IN IF o.call.pc # "done" THEN { Out(o.w, r1) }
     ELSE IF r.cont = "all"
     THEN IF AllDone(r2.calls) THEN respondAll(o.w, r2) ELSE { Out(o.w, r2) }
     ELSE resume(o.w, [r2 EXCEPT !.calls = <<>>], o.call.ref)

metadataSettled(w, r, k) ==
  UNION { settle(r, k, o) : o \in ensureCachedMeta(w, r.calls[k]) }

toFileOpened(w, r, k) == settle(r, k, toFileOpen(w, r.calls[k]))

toFileResolved(w, r, k, otherWriter) ==
  settle(r, k, IF logThrows(w) THEN toFileLogThrows(w, r.calls[k], otherWriter)
               ELSE toFileDone(w, r.calls[k], otherWriter))

toFileRejected(w, r, k) == settle(r, k, toFileFail(w, r.calls[k]))

\* another call of the same request is writing call k's output file
OwnWriter(r, k) ==
  \E m \in 1..Len(r.calls) :
     m # k /\ r.calls[m].pc = "writing" /\ r.calls[m].cachedPath = r.calls[k].cachedPath

\* every way one pending I/O operation of request r can complete, r running alone
completions(w, r) ==
  IF r.pc = "glob" THEN globResolved(w, r)
  ELSE UNION { CASE r.calls[k].pc = "meta" -> metadataSettled(w, r, k)
                 [] r.calls[k].pc = "resize" ->
                      toFileOpened(w, r, k)
                      \cup (IF CanFault(w) THEN toFileRejected(w, r, k) ELSE {})
                 [] r.calls[k].pc = "writing" ->
                      toFileResolved(w, r, k, OwnWriter(r, k))
                      \cup (IF CanFault(w) THEN toFileRejected(w, r, k) ELSE {})
                 [] OTHER -> {}
             : k \in 1..Len(r.calls) }

\* the states in which a request can end when no other request runs
RECURSIVE solo(_)
solo(outs) ==
  IF \A o \in outs : o.r.pc = "done" THEN outs
  ELSE solo(UNION { IF o.r.pc = "done" THEN {o} ELSE completions(o.w, o.r) : o \in outs })

(***************************************************************************)
(* Inputs: slide libraries, config files, request parameters.              *)
(***************************************************************************)
\* the scenario of the specification: a still and a two-frame sequence
LibScenario == << Slide("a", "", <<"a.jpg">>), Slide("b", "", <<"seq_*.jpg">>) >>

\* an oversized still, a still whose file is missing, a pause
LibStills == << Slide("big", "", <<"big.jpg">>), Slide("gone", "", <<"gone.jpg">>),
                Slide("pause", "", <<>>) >>

\* two mux slides that reference each other and themselves, and a still
LibMux == << Mux("m", << <<"x", "m">>, <<"n">> >>), Mux("n", << <<"m", "x">> >>),
             Slide("x", "", <<"a.jpg">>) >>

\* a file outside the photo root, a sequence that plays forever, a pattern without matches
LibEdge == << Slide("t", "", <<"..", "newdir", "y.jpg">>),
              [Slide("inf", "", <<"seq_*.jpg">>) EXCEPT !.duration = "infinite"],
              Slide("none", "", <<"none_*.jpg">>) >>

\* a mux without panels, an embedded video, an embedded page
LibTypes == << Slide("bare", "mux", <<>>),
               [Slide("yt", "youtube", <<>>) EXCEPT !.video_id = "v1"],
               [Slide("web", "html", <<>>) EXCEPT !.url = "http://page"] >>

\* an undecodable image and an image in a subdirectory
LibFiles == << Slide("bad", "", <<"bad.jpg">>), Slide("c", "", <<"sub", "c.jpg">>) >>

\* three mux slides whose panels form a ring
LibRing == << Mux("p", << <<"q">> >>), Mux("q", << <<"r">> >>), Mux("r", << <<"p", "q">> >>) >>

\* embedded videos: with an id, with an embed url, with another url, with neither
LibTube == << [Slide("v", "youtube", <<>>) EXCEPT !.video_id = "v1"],
              [Slide("e", "youtube", <<>>) EXCEPT !.url = "http://yt/embed/v2?t=1"],
              [Slide("u", "youtube", <<>>) EXCEPT !.url = "http://yt/watch"],
              Slide("z", "youtube", <<>>) >>

\* a mux whose panels hold a still, a sequence, an empty sequence, a missing
\* file and another mux
LibPanel == << Mux("k", << <<"s", "g">>, <<"o", "l", "j">> >>),
               Slide("s", "", <<"a.jpg">>), Slide("g", "", <<"seq_*.jpg">>),
               Slide("o", "", <<"none_*.jpg">>), Slide("l", "", <<"gone.jpg">>),
               Mux("j", << <<"s">> >>) >>

Libraries == {LibScenario, LibStills, LibMux, LibRing, LibEdge, LibTypes, LibFiles,
              LibTube, LibPanel}

IdsOf(slides) == { slides[i].id : i \in 1..Len(slides) }

UnknownId == "nope"

\* include lists of at most two ids, known or not
IncludeLists(slides) ==
  LET ids == IdsOf(slides) \cup {UnknownId}
  IN {<<>>} \cup { <<x>> : x \in ids } \cup { <<x, y>> : x \in ids, y \in ids }

ClientSections(slides) ==
  {NoSection, Section(NoInclude)} \cup { Section(Include(l)) : l \in IncludeLists(slides) }

DefaultSections(slides) ==
  {NoSection, Section(NoInclude), Section(Include(<<>>)), Section(Include(<<slides[1].id>>))}

RawConfigs ==
  UNION { { RawConfig(lib, c, NoSection) : c \in ClientSections(lib) }
          \cup { RawConfig(lib, c, d) : c \in {NoSection, Section(NoInclude)},
                                        d \in DefaultSections(lib) }
          \cup { RawConfig(lib, Section(Include(<<>>)), d) : d \in DefaultSections(lib) }
        : lib \in Libraries }

Configs == { loadConfig(TRUE, raw) : raw \in RawConfigs }
           \cup { loadConfig(FALSE, RawConfig(<<>>, NoSection, NoSection)) }

\* the configs served while requests overlap
ServedConfigs ==
  { loadConfig(TRUE, raw) : raw \in
      { RawConfig(LibScenario, Section(Include(<<"a", "b", UnknownId>>)), NoSection),
        RawConfig(LibStills, Section(Include(<<"big", "big">>)), NoSection),
        RawConfig(LibEdge, NoSection, NoSection),
        RawConfig(LibEdge, Section(Include(<<"inf">>)), NoSection) } }

ImageParams == { <<>>, <<"big.jpg">>, <<"..", "secret.jpg">>, <<"gone.jpg">> }
PatternParams == { <<>>, <<"seq_*.jpg">> }

(***************************************************************************)
(* The state machine.                                                      *)
(***************************************************************************)
InitWorld ==
  /\ dirs = UNION { Ancestors(Dirname(p)) : p \in InitFilePaths } \cup {CACHE_DIR, LOG_DIR}
  /\ files = [p \in InitFilePaths |-> Orig(p)]
  /\ reqs = [i \in Slots |-> NoReq]
  /\ faults = 0
  /\ hist = << >>

Init ==
  /\ rev \in {"A", "B"}
  /\ config \in ServedConfigs
  /\ (rev = "B" => config.slides = LibStills)
  /\ InitWorld
  /\ sink = "ok"

Commit(i, o) ==
  /\ dirs' = o.w.dirs
  /\ files' = o.w.files
  /\ faults' = o.w.faults
  /\ hist' = o.w.hist
  /\ sink' = o.w.sink
  /\ reqs' = [reqs EXCEPT ![i] = o.r]
  /\ UNCHANGED <<rev, config>>

InFlight == { j \in Slots : reqs[j].pc \notin {"idle", "done"} }

\* slots are taken in order; a request arrives while at most one other is
\* still being served
Free(i) ==
  /\ reqs[i].pc = "idle"
  /\ \A j \in Slots : j < i => reqs[j].pc # "idle"
  /\ \A j, k \in InFlight : j = k

\* GET /api/slideshow arrives
SlideshowRequest(i) ==
  /\ Free(i)
  /\ \E o \in buildSlideshow(World, [NoReq EXCEPT !.kind = "slideshow"], config) : Commit(i, o)

\* GET /api/image arrives (revision B)
ImageRequest(i) ==
  /\ Free(i) /\ rev = "B"
  /\ \E file \in ImageParams :
       \E o \in apiImage(World, [NoReq EXCEPT !.kind = "image", !.input = file], file) :
          Commit(i, o)

\* GET /api/frames arrives (revision B)
FramesRequest(i) ==
  /\ Free(i) /\ rev = "B"
  /\ \E pattern \in PatternParams :
       \E o \in apiFrames(World, [NoReq EXCEPT !.kind = "frames", !.input = pattern], pattern) :
          Commit(i, o)

GlobResolves(i) ==
  /\ reqs[i].pc = "glob"
  /\ \E o \in globResolved(World, reqs[i]) : Commit(i, o)

Pending(i, k, pcs) == reqs[i].pc = "call" /\ k \in 1..Len(reqs[i].calls) /\ reqs[i].calls[k].pc \in pcs

MetadataSettles(i, k) ==
  /\ Pending(i, k, {"meta"})
  /\ \E o \in metadataSettled(World, reqs[i], k) : Commit(i, o)

ToFileOpens(i, k) ==
  /\ Pending(i, k, {"resize"})
  /\ \E o \in toFileOpened(World, reqs[i], k) : Commit(i, o)

\* variant: a pipeline of another request that has already finished still counts
ForeignWriterEver(i, k) ==
  \E j \in Slots \ {i} : \E m \in 1..Len(reqs[j].log) :
     reqs[j].log[m].branch = "resize" /\ reqs[j].log[m].cachedPath = reqs[i].calls[k].cachedPath

\* a call of another request is writing the same output file
ForeignWriter(i, k) ==
  \E j \in Slots \ {i} : \E m \in 1..Len(reqs[j].calls) :
     reqs[j].calls[m].pc = "writing" /\ reqs[j].calls[m].cachedPath = reqs[i].calls[k].cachedPath

ToFileResolves(i, k) ==
  /\ Pending(i, k, {"writing"})
  /\ \E o \in toFileResolved(World, reqs[i], k, OwnWriter(reqs[i], k) \/ ForeignWriter(i, k)) :
       Commit(i, o)

ToFileRejects(i, k) ==
  /\ Pending(i, k, {"resize", "writing"})
  /\ CanFault(World)
  /\ \E o \in toFileRejected(World, reqs[i], k) : Commit(i, o)

CallIndexes == 1..Cardinality(PhotoNames)

Next ==
  \E i \in Slots :
    \/ SlideshowRequest(i)
    \/ ImageRequest(i)
    \/ FramesRequest(i)
    \/ GlobResolves(i)
    \/ \E k \in CallIndexes :
         \/ MetadataSettles(i, k)
         \/ ToFileOpens(i, k)
         \/ ToFileResolves(i, k)
         \/ ToFileRejects(i, k)

Spec == Init /\ [][Next]_vars

(***************************************************************************)
(* The resolver as a function: one playlist request at a time, each run to *)
(* its response, over every config.                                        *)
(***************************************************************************)
InitResolve ==
  /\ rev \in {"A", "B", "C"}
  /\ config \in Configs
  /\ InitWorld
  /\ sink \in {"ok", "refusing"}

Resolve(i) ==
  /\ Free(i)
  /\ \A j \in Slots : reqs[j].pc \in {"idle", "done"}
  /\ \E o \in solo(buildSlideshow(World, [NoReq EXCEPT !.kind = "slideshow"], config)) :
       Commit(i, o)

NextResolve == \E i \in Slots : Resolve(i)

SpecResolve == InitResolve /\ [][NextResolve]_vars

(***************************************************************************)
(* Properties.                                                             *)
(***************************************************************************)
Range(s) == { s[k] : k \in 1..Len(s) }

\* the ensureCached calls that have returned / that are suspended on an await
ReturnedCalls == UNION { Range(reqs[i].log) : i \in Slots }
PendingCalls == UNION { { c \in Range(reqs[i].calls) : c.pc # "done" } : i \in Slots }
AllCalls == ReturnedCalls \cup PendingCalls

\* the calls that return in a step
NewReturns(i) ==
  { reqs'[i].log[k] : k \in (Len(reqs[i].log) + 1)..Len(reqs'[i].log) }

C2_AsStated == \A rel \in DOMAIN hist : hist[rel].resizes <= 1

\* C2 amended: for every relative path, a second resize computation is
\* performed only when two calls overlapped (both passed the existence
\* check before either had created the cache file) or when an earlier
\* resize failed before it created its output file.
C2_OneResizeUnlessRaceOrFailure ==
  \A rel \in DOMAIN hist :
     \/ hist[rel].resizes <= 1
     \/ hist[rel].overlap
     \/ \E c \in ReturnedCalls : c.relPath = rel /\ c.fail = "resize"

\* an oversized image was resized once and a later call on it did no resize
C2_Witness ==
  \E c, d \in ReturnedCalls :
     /\ c.relPath = d.relPath /\ c.branch = "resize" /\ c.fail = "none"
     /\ d.afterCache /\ d.branch = "none"
     /\ hist[c.relPath].resizes = 1

\* the content of the cache file after one failure-free call on `filePath`
\* that runs alone against a world without the cache file
RECURSIVE runAlone(_)
runAlone(o) ==
  IF o.call.pc = "done" THEN o
  ELSE IF o.call.pc = "meta" THEN runAlone(CHOOSE n \in ensureCachedMeta(o.w, o.call) : TRUE)
  ELSE IF o.call.pc = "resize" THEN runAlone(toFileOpen(o.w, o.call))
  ELSE runAlone(toFileDone(o.w, o.call, FALSE))

singleCall(filePath) ==
  LET w0 == [dirs |-> dirs, faults |-> MaxFaults, hist |-> << >>, sink |-> "ok",
             files |-> [p \in DOMAIN files \ {Join(CACHE_DIR, Relative(PHOTOS_DIR, filePath))}
                          |-> files[p]]]
      o == runAlone(CHOOSE n \in ensureCachedStart(w0, filePath) : TRUE)
  IN o.w.files[o.call.cachedPath]

CallsOn(rel) == { c \in AllCalls : c.relPath = rel }

Reliable(w) == [w EXCEPT !.faults = MaxFaults]

FreshSlideshow == [NoReq EXCEPT !.kind = "slideshow"]

\* C4: every ensureCached call returns a reference, /cache/<relPath> when
\* it met no failure and /photos/<relPath> when directory creation, the
\* metadata read, the resize or the copy failed; and a playlist request
\* answers with an error only when the same request fails without any
\* cache failure.
C4_CacheFailuresDegrade ==
  /\ \A c \in PendingCalls : c.fail = "none"
  /\ \A c \in ReturnedCalls :
       c.ref = IF c.fail = "none" THEN CacheRef(c.relPath) ELSE PhotosRef(c.relPath)
  /\ \A i \in Slots :
       (reqs[i].kind = "slideshow" /\ reqs[i].pc = "done" /\ reqs[i].status # 200) =>
          \A o \in solo(buildSlideshow(Reliable(World), FreshSlideshow, config)) :
             o.r.status # 200

\* a playlist was served whose still's caching had failed: it carries the
\* /photos reference
C4_Witness ==
  \E i \in Slots :
     /\ reqs[i].kind = "slideshow" /\ reqs[i].pc = "done" /\ reqs[i].status = 200
     /\ \E c \in Range(reqs[i].log) :
          /\ c.fail \in {"mkdir", "meta", "copy", "resize", "writing"}
          /\ \E d \in Range(reqs[i].expanded) :
               d.url = PhotosRef(c.relPath) \/ PhotosRef(c.relPath) \in Range(d.frames)

Oversized(content) == Width(content) > maxWidth \/ Height(content) > maxHeight

\* the call records that a step creates or changes
Moved == AllCalls' \ AllCalls

\* C5: a call that does not find the cache file takes the resize branch
\* exactly when the source is wider than maxWidth or higher than maxHeight;
\* for a source within both limits (equality included) it takes the copy
\* branch and, when the copy does not fail, the cache file is
\* byte-identical to the source.
C5_CopyWithinBox ==
  [][ \A c \in Moved :
        /\ c.branch # "none" =>
             (c.branch = "resize" <=> Oversized(files'[c.filePath]))
        /\ (c.pc = "done" /\ ~c.hit /\ c.fail = "none"
              /\ ~Oversized(files'[c.filePath])) =>
             /\ c.branch = "copy"
             /\ files'[c.cachedPath] = files'[c.filePath] ]_vars

\* an image of exactly maxWidth x maxHeight was copied, and one a pixel
\* higher was resized
C5_Witness ==
  \E c, d \in { r \in ReturnedCalls : r.branch # "none" } :
     /\ Width(files[c.filePath]) = maxWidth /\ Height(files[c.filePath]) = maxHeight
     /\ c.branch = "copy" /\ c.fail = "none" /\ files[c.cachedPath] = files[c.filePath]
     /\ Height(files[d.filePath]) = maxHeight + 1 /\ Width(files[d.filePath]) = maxWidth
     /\ d.branch = "resize" /\ d.fail = "none"

\* C6 as stated: every directory a step creates and every file it creates
\* or changes lies under the cache root, and nothing under the photo root
\* is created or changed.
C6_AsStated ==
  [][ /\ \A d \in dirs' \ dirs : IsUnder(CACHE_DIR, d)
      /\ \A p \in DOMAIN files' :
           (p \notin DOMAIN files \/ files'[p] # files[p]) => IsUnder(CACHE_DIR, p)
      /\ \A p \in DOMAIN files : IsUnder(PHOTOS_DIR, p) =>
           p \in DOMAIN files' /\ files'[p] = files[p] ]_vars

Known(id) == find(config.slides, id) # NoSlide

\* the config with every id that is not in the slide library removed from
\* its include lists
Pruned(cfg) ==
  [cfg EXCEPT !.client.include.ids = SelectSeq(@, Known),
              !.default.include.ids = SelectSeq(@, Known)]

\* the responses a playlist request can get from the present state: the
\* playlist with status 200, an error body without one otherwise
Playlists(cfg) ==
  { [status |-> o.r.status, slides |-> IF o.r.status = 200 THEN o.r.expanded ELSE <<>>]
    : o \in solo(buildSlideshow(World, FreshSlideshow, cfg)) }

\* C7: when at least one id of the include list is in the slide library,
\* the playlist is the playlist of the same list without the ids that are
\* not in the library: an unknown id adds no descriptor, is not replaced
\* by anything and raises no error.
C7_UnknownIdsIgnored ==
  (\E id \in Range(includeIdsOf(config)) : Known(id)) =>
     Playlists(config) = Playlists(Pruned(config))

\* a playlist was served from an include list that names a slide of the
\* library and an id that is not in it
C7_Witness ==
  /\ UnknownId \in Range(includeIdsOf(config))
  /\ \E id \in Range(includeIdsOf(config)) : Known(id)
  /\ \E i \in Slots :
       /\ reqs[i].pc = "done" /\ reqs[i].status = 200
       /\ reqs[i].expanded # <<>> /\ ~reqs[i].fellBack
       /\ \A d \in Range(reqs[i].expanded) : d.id # UnknownId

\* the slides a mux's panels name, and the slides reachable through them
PanelRefs(id) ==
  LET slide == find(config.slides, id)
  IN IF slide.type = "mux" /\ slide.hasPanels
     THEN { rid \in Range(flatMap(slide.panels)) : Known(rid) }
     ELSE {}

RECURSIVE ReachFrom(_, _)
ReachFrom(frontier, visited) ==
  IF frontier \subseteq visited THEN visited
  ELSE ReachFrom(UNION { PanelRefs(id) : id \in frontier }, visited \cup frontier)

Reach(id) == ReachFrom(PanelRefs(id), {})

Count(id, expanded) == Cardinality({ k \in 1..Len(expanded) : expanded[k].id = id })

\* a served playlist whose include list is the one mux slide `id`
MuxPlaylist(i, id) ==
  /\ rev = "B"
  /\ reqs[i].pc = "done" /\ reqs[i].status = 200
  /\ includeIdsOf(config) = <<id>>
  /\ find(config.slides, id).type = "mux"

\* C8 as stated: the expansion of a mux slide that is reachable from its
\* own panels contains every slide reachable from it, itself included,
\* exactly once.
C8_AsStated ==
  \A i \in Slots : \A id \in IdsOf(config.slides) :
     (MuxPlaylist(i, id) /\ id \in Reach(id)) =>
        \A x \in Reach(id) : Count(x, reqs[i].expanded) = 1

\* C9: the expansion of a mux slide ends, whatever cycles its panel
\* references form: no id is emitted twice among its children (each
\* slide reachable from the mux is emitted once), so the children are at
\* most as many as the slides of the library; and a playlist holds, per
\* include id, at most the slide and that many children.
C9_ExpansionBounded ==
  \A i \in Slots :
     /\ (rev = "B" /\ reqs[i].pc = "done") =>
           Len(reqs[i].expanded) <= Len(includeIdsOf(config)) * (1 + Len(config.slides))
     /\ \A id \in IdsOf(config.slides) :
           MuxPlaylist(i, id) =>
              LET children == Tail(reqs[i].expanded) IN
              /\ \A x \in IdsOf(config.slides) : Count(x, children) <= 1
              /\ Len(children) <= Len(config.slides)
              /\ \A x \in Reach(id) : Count(x, children) = 1

\* a mux on a cycle of panel references was expanded to as many children
\* as the library has slides
C9_Witness ==
  \E i \in Slots : \E id \in IdsOf(config.slides) :
     /\ MuxPlaylist(i, id) /\ id \in Reach(id)
     /\ Len(reqs[i].expanded) = 1 + Len(config.slides)

\* no default include list was configured: the section is absent (the load
\* step then writes its own) or has no include list
NoDefaultInclude(cfg) ==
  ~cfg.default.include.has \/ cfg.default.include.ids = DefaultPatterns

\* C10 as stated: without a config entry for the client and without a
\* configured default include list, the playlist is not empty whenever
\* some slide of the library has a `file`.
C10_AsStated ==
  \A i \in Slots :
     (/\ reqs[i].pc = "done"
      /\ ~config.client.present /\ NoDefaultInclude(config)
      /\ \E k \in 1..Len(config.slides) : config.slides[k].file # <<>>)
     => reqs[i].status = 200 /\ reqs[i].expanded # <<>>

(***************************************************************************)
(* Frame sequences.                                                        *)
(***************************************************************************)
\* the prepareFrames calls that have returned in playlist requests
Prepared == UNION { { [req |-> i, pattern |-> p.pattern, frames |-> p.frames]
                      : p \in Range(reqs[i].prepared) } : i \in Slots }

\* C11: prepareFrames(pattern) returns one reference per file that matches
\* the pattern, in ascending order of the relative paths, each reference
\* being what an ensureCached call of the request on that file returned;
\* when no file matches, the list is empty.
C11_FramesAreSortedMatches ==
  \A p \in Prepared :
    LET matches == globMatches(files, p.pattern) IN
    /\ Len(p.frames) = Cardinality(matches)
    /\ { p.frames[k].rel : k \in 1..Len(p.frames) } = matches
    /\ \A k, l \in 1..Len(p.frames) : k < l => PathLess(p.frames[k].rel, p.frames[l].rel)
    /\ \A k \in 1..Len(p.frames) :
         \E c \in Range(reqs[p.req].log) :
           /\ c.filePath = Join(PHOTOS_DIR, p.frames[k].rel)
           /\ c.ref = p.frames[k]

\* a playlist was served with a sequence of two frames, one of them cached
\* and the other not
C11_Witness ==
  \E p \in Prepared :
    /\ reqs[p.req].pc = "done" /\ reqs[p.req].status = 200
    /\ Len(p.frames) = 2
    /\ p.frames[1].root # p.frames[2].root
    /\ \E d \in Range(reqs[p.req].expanded) : d.kind = "animated" /\ d.frames = p.frames

(***************************************************************************)
(* The include list.                                                       *)
(***************************************************************************)
\* the include list of a section, empty when the section has none
ListOf(section) == IF section.include.has THEN section.include.ids ELSE <<>>

AllIds == [k \in 1..Len(config.slides) |-> config.slides[k].id]

OrAll(list) == IF list = <<>> THEN AllIds ELSE list

\* the playlist requests that were answered
Answered == { i \in Slots : reqs[i].kind = "slideshow" /\ reqs[i].pc = "done" }

\* C12 as stated: a resolution uses the client's own include list when the
\* client has an entry, the default include list otherwise, and the ids of
\* every slide in library order when the selected list is empty.
C12_AsStated ==
  \A i \in Answered :
    reqs[i].include = OrAll(IF config.client.present THEN ListOf(config.client)
                            ELSE ListOf(config.default))

\* C12: a resolution uses the client's include list when the client has an
\* entry with an include list, the default include list when the client has
\* no entry or an entry without an include list, and the ids of every slide
\* in library order when the selected list is missing or empty.
C12_IncludeSelection ==
  \A i \in Answered :
    reqs[i].include = OrAll(IF config.client.present /\ config.client.include.has
                            THEN config.client.include.ids
                            ELSE ListOf(config.default))

\* a playlist was resolved for a client whose entry has no include list,
\* from the default include list
C12_Witness ==
  \E i \in Answered :
    /\ config.client.present /\ ~config.client.include.has
    /\ ListOf(config.default) # <<>>
    /\ reqs[i].include = ListOf(config.default)
    /\ reqs[i].include # AllIds
    /\ reqs[i].status = 200 /\ reqs[i].expanded # <<>>

(***************************************************************************)
(* Resolution order.                                                       *)
(***************************************************************************)
\* the ids a mux names in its panels, in panel order; revision A has no mux
\* slides (the `type` of a slide plays no part in it)
PanelIds(id) ==
  LET slide == find(config.slides, id)
  IN IF rev = "B" /\ slide.type = "mux" /\ slide.hasPanels THEN flatMap(slide.panels)
     ELSE <<>>

\* depth-first pre-order from `ids`, each slide of the library visited once
RECURSIVE Dfs(_, _)
Dfs(ids, visited) ==
  IF ids = <<>> THEN [order |-> <<>>, visited |-> visited]
  ELSE IF Head(ids) \in visited \/ ~Known(Head(ids)) THEN Dfs(Tail(ids), visited)
  ELSE LET below == Dfs(PanelIds(Head(ids)), visited \cup {Head(ids)})
           rest == Dfs(Tail(ids), below.visited)
       IN [order |-> <<Head(ids)>> \o below.order \o rest.order, visited |-> rest.visited]

\* what an id of the include list stands for: nothing when it is unknown,
\* a mux and its children, or one descriptor that may be left out
Block(id) ==
  LET slide == find(config.slides, id)
      entry(x, optional) == [id |-> x, optional |-> optional]
      children == Dfs(PanelIds(id), {}).order
  IN IF slide = NoSlide THEN <<>>
     ELSE IF rev = "B" /\ slide.type = "mux"
     THEN <<entry(id, FALSE)>> \o [k \in 1..Len(children) |-> entry(children[k], FALSE)]
     ELSE <<entry(id, TRUE)>>

RECURSIVE Blocks(_)
Blocks(ids) == IF ids = <<>> THEN <<>> ELSE Block(Head(ids)) \o Blocks(Tail(ids))

\* `ids` is `entries` without some of its optional entries
RECURSIVE Follows(_, _)
Follows(ids, entries) ==
  IF entries = <<>> THEN ids = <<>>
  ELSE \/ ids # <<>> /\ Head(ids) = Head(entries).id /\ Follows(Tail(ids), Tail(entries))
       \/ Head(entries).optional /\ Follows(ids, Tail(entries))

IdSeq(expanded) == [k \in 1..Len(expanded) |-> expanded[k].id]

\* the playlists served from the include list (not the last-resort fallback)
Resolved == { i \in Answered : reqs[i].status = 200 /\ ~reqs[i].fellBack }

InProgress(i) == { k \in DOMAIN reqs[i].calls : reqs[i].calls[k].pc # "done" }

\* C14 as stated: within the handling of one request, at most one
\* ensureCached call is in progress at any time.
C14_AsStated == \A i \in Slots : Cardinality(InProgress(i)) <= 1

(***************************************************************************)
(* Responses.                                                              *)
(***************************************************************************)
\* nothing but unknown ids, missing files, empty sequences and slides
\* without their optional fields stands in the way of a resolution: the
\* log accepts writes and no sequence has the duration "infinite"
OnlySoftFailures ==
  /\ sink = "ok"
  /\ \A k \in 1..Len(config.slides) : config.slides[k].duration # "infinite"

\* C15 as stated: every playlist request is answered with the playlist or
\* with a 500, and an unknown id, a missing file, a sequence without
\* matches or a mux, youtube or html slide without its panels, video id or
\* url leads to the playlist without that slide, never to the 500.
C15_AsStated ==
  \A i \in Answered :
    /\ reqs[i].status \in {200, 500}
    /\ OnlySoftFailures => reqs[i].status = 200

(***************************************************************************)
(* The diagnostics sink.                                                   *)
(***************************************************************************)
\* what a playlist request started in world `w` can end with: its response
\* and the references its ensureCached calls returned
Outcomes(w) ==
  { [status |-> o.r.status,
     slides |-> IF o.r.status = 200 THEN o.r.expanded ELSE <<>>,
     refs |-> [k \in 1..Len(o.r.log) |-> o.r.log[k].ref]]
    : o \in solo(buildSlideshow(w, FreshSlideshow, config)) }

\* C16 as stated: a failure of log never changes the outcome of a
\* resolution: the playlist and the references returned by ensureCached
\* are those of the same resolution with a log that accepts every write.
C16_AsStated == Outcomes(World) = Outcomes([World EXCEPT !.sink = "ok"])

(***************************************************************************)
(* Descriptors.                                                            *)
(***************************************************************************)
\* the playlists that were returned
Served == { i \in Answered : reqs[i].status = 200 }

\* the slide is a sequence whose pattern matches no file
EmptySequence(slide) ==
  /\ slide.file # <<>> /\ includesStar(slide.file)
  /\ globMatches(files, slide.file) = {}

\* C17 as stated: no descriptor of a returned playlist carries an empty
\* frames list, and a slide whose pattern matches no file contributes no
\* descriptor, whether it is named in the include list or in a panel of a
\* mux.
C17_AsStated ==
  \A i \in Served : \A d \in Range(reqs[i].expanded) :
    /\ d.kind = "animated" => d.frames # <<>>
    /\ ~EmptySequence(find(config.slides, d.id))

\* the video identifier of a youtube slide: its video_id, else the segment
\* after /embed/ in its url, else none ("")
VideoIdOf(slide) == IF slide.video_id # "" THEN slide.video_id ELSE embedId(slide.url)

\* C18 as stated: in the revisions that know youtube slides (part_003), a
\* youtube slide yields a youtube descriptor that carries its video
\* identifier, or no descriptor at all: with neither a video_id nor a url
\* with an /embed/ segment no descriptor of any kind is emitted for it.
C18_AsStated ==
  rev \in {"B", "C"} =>
    \A i \in Served : \A d \in Range(reqs[i].expanded) :
      LET slide == find(config.slides, d.id)
      IN slide.type = "youtube" =>
           /\ d.kind = "youtube"
           /\ VideoIdOf(slide) # ""
           /\ d.ext = VideoIdOf(slide)

\* the playlists served from an include list that names one mux: every
\* descriptor after the first belongs to a child of that mux
MuxServed ==
  { i \in Served : /\ Len(reqs[i].include) = 1 /\ ~reqs[i].fellBack
                    /\ find(config.slides, reqs[i].include[1]).type = "mux"
                    /\ find(config.slides, reqs[i].include[1]).hasPanels }

\* C19 as stated: in the revisions that expand mux slides (part_003), every
\* slide emitted as a child of a mux is the renderable descriptor it yields
\* as a top-level include: a child with a literal file is a still whose url
\* an ensureCached call returned (and is left out when the file is missing),
\* a child with a pattern carries the frames prepareFrames returned, and a
\* child that is a mux is emitted as a mux descriptor.
C19_AsStated ==
  rev \in {"B", "C"} =>
    \A i \in MuxServed : \A k \in 2..Len(reqs[i].expanded) :
      LET d == reqs[i].expanded[k]
          child == find(config.slides, d.id)
          literal == child.file # <<>> /\ ~includesStar(child.file)
      IN /\ d.kind # "def"
         /\ child.type = "mux" => d.kind = "mux"
         /\ literal =>
              /\ d.kind = "still"
              /\ existsSync(dirs, files, Join(PHOTOS_DIR, child.file))
              /\ \E c \in Range(reqs[i].log) :
                   c.filePath = Join(PHOTOS_DIR, child.file) /\ c.ref = d.url
         /\ (child.file # <<>> /\ includesStar(child.file)) =>
              /\ d.kind = "animated"
              /\ \E p \in Range(reqs[i].prepared) :
                   p.pattern = child.file /\ p.frames = d.frames

(***************************************************************************)
(* Completeness of the cache file.                                         *)
(***************************************************************************)
\* the file at path p holds the whole of an image in the files f
Complete(f, p) == p \in DOMAIN f /\ f[p].kind \in {"orig", "resized"}

\* C20 as stated: whenever an ensureCached call returns /cache/<relPath>,
\* the cache file at that path is complete at that moment: no call returns
\* the reference to a file that a resize is still writing.
C20_AsStated ==
  [][ \A i \in Slots : \A c \in NewReturns(i) :
        c.ref = CacheRef(c.relPath) => Complete(files', c.cachedPath) ]_vars

(***************************************************************************)
(* Failed writes.                                                          *)
(***************************************************************************)
\* an ensureCached call is suspended with its output file open at path p
BeingWritten(p) == \E c \in PendingCalls : c.pc = "writing" /\ c.cachedPath = p

\* C21 as stated: a resize or copy that fails leaves no file at the cache
\* path: whenever no write to it is in progress, a file under the cache
\* root is the complete output of a transform or copy, and a call that
\* returns /cache/<relPath> after finding the file did not find an
\* incomplete one left behind.
C21_AsStated ==
  /\ [](\A p \in DOMAIN files :
         (IsUnder(CACHE_DIR, p) /\ ~BeingWritten(p)) => Complete(files, p))
  /\ [][ \A i \in Slots : \A c \in NewReturns(i) :
          (c.hit /\ c.ref = CacheRef(c.relPath) /\ ~BeingWritten(c.cachedPath))
            => c.found.kind # "partial" ]_vars

(***************************************************************************)
(* Stills.                                                                 *)
(***************************************************************************)
\* the slide's `file` names one file that exists under the photo root
NamesPhoto(slide) ==
  /\ slide.file # <<>> /\ ~includesStar(slide.file)
  /\ IsUnder(PHOTOS_DIR, Join(PHOTOS_DIR, slide.file))
  /\ Join(PHOTOS_DIR, slide.file) \in DOMAIN files

\* C22 as stated: every descriptor of a returned playlist that carries an
\* image url belongs to a slide whose `file` names a single file that
\* exists under the photo root, on the per-id path, for the children of a
\* mux and in the last-resort fallback: a pattern or a missing file never
\* yields a still.
C22_AsStated ==
  \A i \in Served : \A d \in Range(reqs[i].expanded) :
    d.kind = "still" => NamesPhoto(find(config.slides, d.id))
====
